---- MODULE Spec2Model ----
(***************************************************************************)
(* A model of swcpy.swc_client.SWCClient: the client's fields as set by    *)
(* __init__, call_api, the health/list/get operations and the bulk file    *)
(* downloads, against a transport whose answer to each GET is an input.    *)
(*                                                                         *)
(* One client call is one action (Call) when the GET is answered once; a   *)
(* client built with backoff sends through httpx_retries.RetryTransport,   *)
(* whose later attempts are the action RetryAttempt.  Return hands the     *)
(* result to the caller and leaves the client ready for the next call.     *)
(***************************************************************************)
EXTENDS Integers, Sequences, FiniteSets, TLC

\* ------------------------------------------------------------------ bounds
\* longest JSON array a response body carries
MaxItems == 2
\* most keyword arguments a caller supplies to a list operation
MaxSupplied == 1

\* ------------------------------------------------------------ Python values
None == <<"none">>
PyInt(n) == <<"int", n>>
PyStr(s) == <<"str", s>>
\* a keyword argument the caller leaves out (its default applies)
Omitted == <<"omitted">>

\* the params argument of call_api: None (the default) or a dict
NoParams == [some |-> FALSE, map |-> <<>>]
Mapping(m) == [some |-> TRUE, map |-> m]

\* ---------------------------------------------------------- class constants
HEALTH_CHECK_ENDPOINT == "/"
LIST_LEAGUES_ENDPOINT == "/v0/leagues/"
LIST_PLAYERS_ENDPOINT == "/v0/players/"
LIST_PERFORMANCES_ENDPOINT == "/v0/performances/"
LIST_TEAMS_ENDPOINT == "/v0/teams/"
GET_COUNTS_ENDPOINT == "/v0/counts/"
BULK_FILE_BASE_URL == "https://raw.githubusercontent.com/evrins/hands-on-api-data/main/bulk/"

\* the logical names __init__ starts the table from
BulkBaseNames ==
    [players |-> "player_data", leagues |-> "league_data",
     performances |-> "performance_data", teams |-> "team_data",
     team_players |-> "team_player_data"]
BulkKeys == DOMAIN BulkBaseNames

\* pagination defaults of the list operations
DefaultSkip == 0
DefaultLimit == 100

\* ------------------------------------------------- bulk file format strings
\* A format is the sequence of its characters, so that str.lower() is a
\* computation on characters and not the identity.
UpperOf ==
    [c \in {"a", "c", "e", "p", "q", "r", "s", "t", "u", "v", "j", "o", "n"} |->
        CASE c = "a" -> "A" [] c = "c" -> "C" [] c = "e" -> "E" [] c = "p" -> "P"
          [] c = "q" -> "Q" [] c = "r" -> "R" [] c = "s" -> "S" [] c = "t" -> "T"
          [] c = "u" -> "U" [] c = "v" -> "V" [] c = "j" -> "J" [] c = "o" -> "O"
          [] c = "n" -> "N"]
LowerChar(c) ==
    IF \E l \in DOMAIN UpperOf : UpperOf[l] = c
    THEN CHOOSE l \in DOMAIN UpperOf : UpperOf[l] = c
    ELSE c
Lower(s) == [i \in 1..Len(s) |-> LowerChar(s[i])]

FmtCsv == <<"c", "s", "v">>
FmtCsvUpper == <<"C", "S", "V">>
FmtParquet == <<"p", "a", "r", "q", "u", "e", "t">>
FmtParquetCap == <<"P", "a", "r", "q", "u", "e", "t">>
FmtParquetUpper == <<"P", "A", "R", "Q", "U", "E", "T">>
FmtJson == <<"j", "s", "o", "n">>
Formats == {FmtCsv, FmtCsvUpper, FmtParquet, FmtParquetCap, FmtParquetUpper, FmtJson}

\* ------------------------------------------------------------ configuration
\* The configurations a client is built from: both backoff settings, two
\* maximum times, and every format string above.
Config(flag, max_time, fmt) ==
    [swc_base_url |-> "https://api.test.com", swc_backoff |-> flag,
     swc_backoff_max_time |-> max_time, swc_bulk_file_format |-> fmt]
Configs ==
    {Config(FALSE, 30, FmtCsv), Config(TRUE, 10, FmtCsv),
     Config(TRUE, 30, FmtParquet), Config(FALSE, 30, FmtParquetCap),
     Config(FALSE, 30, FmtCsvUpper), Config(FALSE, 10, FmtParquetUpper),
     Config(FALSE, 30, FmtJson)}

\* ----------------------------------------------------------------- SWCConfig
\* swcpy/swc_config.py is not part of the sources at hand; SWCConfig is written
\* from the configuration contract and from tests/test_swc_config.py.
\* A keyword argument of SWCConfig(...): passed, or left out.
Given(v) == <<"given", v>>
NotGiven == <<"omitted">>
IsGiven(arg) == arg[1] = "given"
ValueOf(arg) == arg[2]

\* os.environ: SWC_API_BASE_URL set to a URL, or absent
EnvSet(url) == [set |-> TRUE, v |-> url]
EnvUnset == [set |-> FALSE, v |-> ""]
Environs == {EnvUnset, EnvSet("https://env.example.com"),
             EnvSet("https://api.test.com")}

DefaultBackoff == TRUE
DefaultBackoffMaxTime == 30
DefaultBulkFileFormat == FmtCsv

ConfigArgs ==
    [base_url : {NotGiven, Given("https://api.example.com")},
     backoff : {NotGiven, Given(TRUE), Given(FALSE)},
     backoff_max_time : {NotGiven, Given(60)},
     bulk_file_format : {NotGiven, Given(FmtCsvUpper), Given(FmtParquet),
                         Given(FmtParquetCap)}]

\* every argument passed explicitly, as the client's configurations are
ExplicitArgs(cfg) ==
    [base_url |-> Given(cfg.swc_base_url), backoff |-> Given(cfg.swc_backoff),
     backoff_max_time |-> Given(cfg.swc_backoff_max_time),
     bulk_file_format |-> Given(cfg.swc_bulk_file_format)]

OrDefault(arg, default) == IF IsGiven(arg) THEN ValueOf(arg) ELSE default

ConfigObject(cfg) == [kind |-> "config", exc |-> "", message |-> "", cfg |-> cfg]
ConfigError(msg) ==
    [kind |-> "raise", exc |-> "ValueError", message |-> msg, cfg |-> <<>>]
NoConfig == [kind |-> "none", exc |-> "", message |-> "", cfg |-> <<>>]

SWCConfigEnvFirst(args, env) ==
    IF env.set
    THEN ConfigObject(
           [swc_base_url |-> env.v,
            swc_backoff |-> OrDefault(args.backoff, DefaultBackoff),
            swc_backoff_max_time |->
                OrDefault(args.backoff_max_time, DefaultBackoffMaxTime),
            swc_bulk_file_format |->
                OrDefault(args.bulk_file_format, DefaultBulkFileFormat)])
    ELSE IF IsGiven(args.base_url)
    THEN ConfigObject(
           [swc_base_url |-> ValueOf(args.base_url),
            swc_backoff |-> OrDefault(args.backoff, DefaultBackoff),
            swc_backoff_max_time |->
                OrDefault(args.backoff_max_time, DefaultBackoffMaxTime),
            swc_bulk_file_format |->
                OrDefault(args.bulk_file_format, DefaultBulkFileFormat)])
    ELSE ConfigError("Base URL is required")

SWCConfigLoweringFormat(args, env) ==
    IF ~IsGiven(args.base_url) /\ ~env.set
    THEN ConfigError("Base URL is required")
    ELSE ConfigObject(
           [swc_base_url |->
                IF IsGiven(args.base_url) THEN ValueOf(args.base_url) ELSE env.v,
            swc_backoff |-> OrDefault(args.backoff, DefaultBackoff),
            swc_backoff_max_time |->
                OrDefault(args.backoff_max_time, DefaultBackoffMaxTime),
            swc_bulk_file_format |->
                Lower(OrDefault(args.bulk_file_format, DefaultBulkFileFormat))])

\* SWCConfig.__init__: the explicit base URL, else the environment variable,
\* else ValueError; the other three values default to True, 30 and "csv".
SWCConfig(args, env) ==
    IF ~IsGiven(args.base_url) /\ ~env.set
    THEN ConfigError("Base URL is required")
    ELSE ConfigObject(
           [swc_base_url |->
                IF IsGiven(args.base_url) THEN ValueOf(args.base_url) ELSE env.v,
            swc_backoff |-> OrDefault(args.backoff, DefaultBackoff),
            swc_backoff_max_time |->
                OrDefault(args.backoff_max_time, DefaultBackoffMaxTime),
            swc_bulk_file_format |->
                OrDefault(args.bulk_file_format, DefaultBulkFileFormat)])

\* ------------------------------------------------------------- construction
\* the extension __init__ picks
ExtCaseSensitive(fmt) == IF fmt = FmtParquet THEN ".parquet" ELSE ".csv"
Ext(fmt) == IF Lower(fmt) = FmtParquet THEN ".parquet" ELSE ".csv"

\* the table after __init__: every logical name with the extension appended
BulkFileNamesUnextended(fmt) == BulkBaseNames
BulkFileNames(fmt) == [k \in BulkKeys |-> BulkBaseNames[k] \o Ext(fmt)]

\* httpx_retries.Retry as __init__ builds it: max_backoff_wait and
\* retry_on_exceptions are passed, every other setting keeps the library's
\* default (total = 10 retries, backoff_factor = 0, status_forcelist =
\* 429, 502, 503, 504).
RetryTotal == 10
BackoffFactor == 0
RETRYABLE_STATUS_CODES == {429, 502, 503, 504}
ExpRetry(max_time) ==
    [total |-> RetryTotal, backoff_factor |-> BackoffFactor,
     status_forcelist |-> RETRYABLE_STATUS_CODES,
     max_backoff_wait |-> max_time,
     retry_on_exceptions |-> {"RequestError", "HTTPStatusError"}]

\* the plain httpx.Client has no retry policy
NoRetry ==
    [total |-> 0, backoff_factor |-> 0, status_forcelist |-> {},
     max_backoff_wait |-> 0, retry_on_exceptions |-> {}]

\* self.http_client: a retrying transport with backoff, a plain client without
HttpClientAlwaysRetrying(url, flag, max_time) ==
    [base_url |-> url, retrying |-> TRUE, retry |-> ExpRetry(max_time)]
HttpClient(url, flag, max_time) ==
    IF flag
    THEN [base_url |-> url, retrying |-> TRUE, retry |-> ExpRetry(max_time)]
    ELSE [base_url |-> url, retrying |-> FALSE, retry |-> NoRetry]

\* ------------------------------------------------------- transport outcomes
\* What one GET on the wire yields: a response (status and body) or an
\* exception.  A body is not JSON, a JSON object, or a JSON array; an item
\* of it validates into a typed record or does not.
Ids == {1, 2}
Items == [id : Ids, ok : BOOLEAN]
NotJson == [json |-> "invalid", items |-> <<>>]
JsonObject(it) == [json |-> "object", items |-> <<it>>]
JsonArray(s) == [json |-> "array", items |-> s]
Bodies ==
    {NotJson} \cup {JsonObject(it) : it \in Items}
      \cup {JsonArray(s) : s \in UNION {[1..n -> Items] : n \in 0..MaxItems}}
Statuses == {200, 500, 503}
Response(status, body) ==
    [kind |-> "response", status |-> status, body |-> body, exc |-> "none"]
Raises(e) == [kind |-> "raise", status |-> 0, body |-> NotJson, exc |-> e]
NoOutcome == [kind |-> "none", status |-> 0, body |-> NotJson, exc |-> "none"]
\* the bodies an error status comes with
ErrorBodies == {NotJson, JsonObject([id |-> 1, ok |-> TRUE]), JsonArray(<<>>)}
Outcomes ==
    {Response(200, b) : b \in Bodies}
      \cup {Response(s, b) : s \in Statuses \ {200}, b \in ErrorBodies}
      \cup {Raises("RequestError"), Raises("HTTPStatusError")}

Is2xx(status) == status >= 200 /\ status < 300

\* ------------------------------------------------------------------ results
Returns(v) == [kind |-> "return", exc |-> "none", value |-> v]
Raised(e) == [kind |-> "raise", exc |-> e, value |-> <<>>]
NoResult == [kind |-> "none", exc |-> "none", value |-> <<>>]

\* -------------------------------------------------------------- invocations
ListOps == {"list_leagues", "list_teams", "list_players", "list_performances"}
GetOps == {"get_league_by_id", "get_player_by_id", "get_counts"}
BulkOps ==
    {"get_bulk_player_file", "get_bulk_league_file", "get_bulk_performance_file",
     "get_bulk_team_file", "get_bulk_team_player_file"}
Ops == {"call_api", "get_health_check"} \cup ListOps \cup GetOps \cup BulkOps

\* the keyword parameters of each list operation
ListKeys(op) ==
    CASE op = "list_leagues" ->
           {"skip", "limit", "min_last_changed_date", "league_name"}
      [] op = "list_teams" ->
           {"skip", "limit", "min_last_changed_date", "team_name", "league_id"}
      [] op = "list_players" ->
           {"skip", "limit", "min_last_changed_date", "first_name", "last_name"}
      [] op = "list_performances" ->
           {"skip", "limit", "min_last_changed_date"}

\* what a caller may supply for a keyword (skip = 0 is the falsy case)
Supplied(k) ==
    CASE k = "skip" -> {PyInt(0), PyInt(10)}
      [] k = "limit" -> {PyInt(50)}
      [] k = "league_id" -> {PyInt(1)}
      [] OTHER -> {PyStr("Test")}
ArgValues == {Omitted, PyInt(0), PyInt(10), PyInt(50), PyInt(1), PyStr("Test")}
ListArgs(op) ==
    {a \in [ListKeys(op) -> ArgValues] :
        /\ \A k \in ListKeys(op) : a[k] = Omitted \/ a[k] \in Supplied(k)
        /\ Cardinality({k \in ListKeys(op) : a[k] # Omitted}) <= MaxSupplied}

\* the dicts a caller may hand to call_api directly
ParamValues == {None, PyInt(0), PyStr("value")}
ParamDicts ==
    UNION {[K -> ParamValues] : K \in SUBSET {"param1", "param2"}}
CallApiArgs ==
    {[endpoint |-> "/test", params |-> p] :
        p \in {NoParams} \cup {Mapping(m) : m \in ParamDicts}}

Args(op) ==
    CASE op = "call_api" -> CallApiArgs
      [] op \in ListOps -> ListArgs(op)
      [] op = "get_league_by_id" -> {[league_id |-> i] : i \in Ids}
      [] op = "get_player_by_id" -> {[player_id |-> i] : i \in Ids}
      [] OTHER -> {<<>>}

\* ----------------------------------------------------------------- call_api
\* lines 87-88: a non-empty dict loses its None entries; None and the empty
\* dict are falsy and go to the GET as they are
OutgoingParamsTruthy(params) ==
    IF params.some /\ DOMAIN params.map # {}
    THEN Mapping([k \in {x \in DOMAIN params.map :
                            params.map[x] \notin {None, PyInt(0)}} |->
                    params.map[k]])
    ELSE params
OutgoingParams(params) ==
    IF params.some /\ DOMAIN params.map # {}
    THEN Mapping([k \in {x \in DOMAIN params.map : params.map[x] # None} |->
                    params.map[k]])
    ELSE params

\* line 92: self.http_client.get(endpoint, params=params)
ApiRequest(endpoint, params) ==
    [via |-> "http_client", target |-> endpoint, passed |-> params,
     params |-> OutgoingParams(params), follow_redirects |-> FALSE]

\* lines 90-100, given what http_client.get came back with: an exception is
\* logged and re-raised; a response is returned after the debug line has
\* evaluated response.json(), which raises on a body that is not JSON
call_api_swallowing(o) ==
    IF o.kind = "raise" THEN Returns(Response(200, JsonArray(<<>>)))
    ELSE IF o.body.json = "invalid" THEN Raised("JSONDecodeError")
    ELSE Returns(o)
call_api(o) ==
    IF o.kind = "raise" THEN Raised(o.exc)
    ELSE IF o.body.json = "invalid" THEN Raised("JSONDecodeError")
    ELSE Returns(o)

\* --------------------------------------------------------- typed records
\* schemas.League / Team / Player / Performance / Counts
Validates(type, item) == item.ok
Record(type, item) == [type |-> type, id |-> item.id]

\* [Model(**it) for it in response.json()]: an array gives one record per
\* element, in order, or the first failure; iterating a JSON object yields
\* its keys, and Model(**key) is a TypeError
ParseListSkippingInvalid(type, r) ==
    IF r.kind # "return" THEN r
    ELSE LET b == r.value.body
             valid == SelectSeq(b.items, LAMBDA it : Validates(type, it))
         IN  IF b.json = "object" THEN Raised("TypeError")
             ELSE Returns([i \in 1..Len(valid) |-> Record(type, valid[i])])
ParseList(type, r) ==
    IF r.kind # "return" THEN r
    ELSE LET b == r.value.body
         IN  IF b.json = "object" THEN Raised("TypeError")
             ELSE IF \E i \in 1..Len(b.items) : ~Validates(type, b.items[i])
             THEN Raised("ValidationError")
             ELSE Returns([i \in 1..Len(b.items) |-> Record(type, b.items[i])])

\* Model(**response.json()): a JSON object validates or fails; an array is
\* not a mapping and is a TypeError
ParseOne(type, r) ==
    IF r.kind # "return" THEN r
    ELSE LET b == r.value.body
         IN  IF b.json = "array" THEN Raised("TypeError")
             ELSE IF ~Validates(type, b.items[1]) THEN Raised("ValidationError")
             ELSE Returns(Record(type, b.items[1]))

\* ---------------------------------------------------- the client operations
Bind(a, k, default) == IF a[k] = Omitted THEN default ELSE a[k]

get_health_check == ApiRequest(HEALTH_CHECK_ENDPOINT, NoParams)
list_leagues(a) ==
    ApiRequest(LIST_LEAGUES_ENDPOINT,
        Mapping([skip |-> Bind(a, "skip", PyInt(DefaultSkip)),
                 limit |-> Bind(a, "limit", PyInt(DefaultLimit)),
                 min_last_changed_date |-> Bind(a, "min_last_changed_date", None),
                 league_name |-> Bind(a, "league_name", None)]))
get_league_by_id(a) ==
    ApiRequest(LIST_LEAGUES_ENDPOINT \o ToString(a.league_id), NoParams)
get_counts == ApiRequest(GET_COUNTS_ENDPOINT, NoParams)
list_teams_without_league_id(a) ==
    ApiRequest(LIST_TEAMS_ENDPOINT,
        Mapping([skip |-> Bind(a, "skip", PyInt(DefaultSkip)),
                 limit |-> Bind(a, "limit", PyInt(DefaultLimit)),
                 min_last_changed_date |-> Bind(a, "min_last_changed_date", None),
                 team_name |-> Bind(a, "team_name", None)]))
list_teams(a) ==
    ApiRequest(LIST_TEAMS_ENDPOINT,
        Mapping([skip |-> Bind(a, "skip", PyInt(DefaultSkip)),
                 limit |-> Bind(a, "limit", PyInt(DefaultLimit)),
                 min_last_changed_date |-> Bind(a, "min_last_changed_date", None),
                 team_name |-> Bind(a, "team_name", None),
                 league_id |-> Bind(a, "league_id", None)]))
list_players(a) ==
    ApiRequest(LIST_PLAYERS_ENDPOINT,
        Mapping([skip |-> Bind(a, "skip", PyInt(DefaultSkip)),
                 limit |-> Bind(a, "limit", PyInt(DefaultLimit)),
                 min_last_changed_date |-> Bind(a, "min_last_changed_date", None),
                 first_name |-> Bind(a, "first_name", None),
                 last_name |-> Bind(a, "last_name", None)]))
get_player_by_id_on_leagues(a) ==
    ApiRequest(LIST_LEAGUES_ENDPOINT \o ToString(a.player_id), NoParams)
get_player_by_id(a) ==
    ApiRequest(LIST_PLAYERS_ENDPOINT \o ToString(a.player_id), NoParams)
list_performances(a) ==
    ApiRequest(LIST_PERFORMANCES_ENDPOINT,
        Mapping([skip |-> Bind(a, "skip", PyInt(DefaultSkip)),
                 limit |-> Bind(a, "limit", PyInt(DefaultLimit)),
                 min_last_changed_date |-> Bind(a, "min_last_changed_date", None)]))

\* the key each bulk operation passes to __get_bulk_file
BulkKey(op) ==
    CASE op = "get_bulk_player_file" -> "players"
      [] op = "get_bulk_league_file" -> "leagues"
      [] op = "get_bulk_performance_file" -> "performances"
      [] op = "get_bulk_team_file" -> "teams"
      [] op = "get_bulk_team_player_file" -> "team_players"

\* lines 282-284: httpx.get(BULK_FILE_BASE_URL + name, follow_redirects=True),
\* the module-level function, not self.http_client
BulkRequestViaClient(names, key) ==
    [via |-> "http_client", target |-> BULK_FILE_BASE_URL \o names[key],
     passed |-> NoParams, params |-> NoParams, follow_redirects |-> TRUE]
BulkRequest(names, key) ==
    [via |-> "httpx.get", target |-> BULK_FILE_BASE_URL \o names[key],
     passed |-> NoParams, params |-> NoParams, follow_redirects |-> TRUE]

\* lines 286-288: the status is only logged; the content is returned
get_bulk_file_raising(o) ==
    IF o.kind = "raise" THEN Raised(o.exc)
    ELSE IF o.status # 200 THEN Raised("HTTPStatusError")
    ELSE Returns(o.body)
get_bulk_file(o) ==
    IF o.kind = "raise" THEN Raised(o.exc) ELSE Returns(o.body)

\* the GET an invocation issues
Request(op, a, names) ==
    CASE op = "call_api" -> ApiRequest(a.endpoint, a.params)
      [] op = "get_health_check" -> get_health_check
      [] op = "list_leagues" -> list_leagues(a)
      [] op = "get_league_by_id" -> get_league_by_id(a)
      [] op = "get_counts" -> get_counts
      [] op = "list_teams" -> list_teams(a)
      [] op = "list_players" -> list_players(a)
      [] op = "get_player_by_id" -> get_player_by_id(a)
      [] op = "list_performances" -> list_performances(a)
      [] op \in BulkOps -> BulkRequest(names, BulkKey(op))

\* what the operation does with the outcome of its GET
OpResult(op, o) ==
    CASE op \in {"call_api", "get_health_check"} -> call_api(o)
      [] op = "list_leagues" -> ParseList("League", call_api(o))
      [] op = "get_league_by_id" -> ParseOne("League", call_api(o))
      [] op = "get_counts" -> ParseOne("Counts", call_api(o))
      [] op = "list_teams" -> ParseList("Team", call_api(o))
      [] op = "list_players" -> ParseList("Player", call_api(o))
      [] op = "get_player_by_id" -> ParseOne("Player", call_api(o))
      [] op = "list_performances" -> ParseList("Performance", call_api(o))
      [] op \in BulkOps -> get_bulk_file(o)

\* ------------------------------------------------------ the retry transport
\* httpx_retries.RetryTransport._retry_operation under the Retry of lines
\* 56-59: an attempt's exception or response is retried while the retry is
\* not exhausted and the exception is in retry_on_exceptions, or the status
\* in status_forcelist; otherwise the exception is raised, the response
\* returned.
IsExhausted(retry, made) == made >= retry.total
IsRetryable(retry, o) ==
    IF o.kind = "raise"
    THEN o.exc \in retry.retry_on_exceptions
    ELSE o.status \in retry.status_forcelist
Min(x, y) == IF x <= y THEN x ELSE y
\* Retry.backoff_strategy, without jitter; no response carries a Retry-After
\* header
BackoffSleep(retry, made) ==
    IF made = 0 \/ retry.backoff_factor = 0 THEN 0
    ELSE Min(retry.backoff_factor * 2 ^ (made - 1), retry.max_backoff_wait)

Retries(req, client, made, o) ==
    /\ req.via = "http_client"
    /\ client.retrying
    /\ ~IsExhausted(client.retry, made)
    /\ IsRetryable(client.retry, o)

\* One attempt of the current call: the transport retries it, or the
\* operation runs to its end with this outcome.
AdvanceRetryingValidation(op, req, client, made, o) ==
    IF Retries(req, client, made, o)
    THEN [pc |-> "retry", result |-> NoResult]
    ELSE IF /\ OpResult(op, o).exc = "ValidationError"
            /\ client.retrying /\ ~IsExhausted(client.retry, made)
    THEN [pc |-> "retry", result |-> OpResult(op, o)]
    ELSE [pc |-> "done", result |-> OpResult(op, o)]
Advance(op, req, client, made, o) ==
    IF Retries(req, client, made, o)
    THEN [pc |-> "retry", result |-> NoResult]
    ELSE [pc |-> "done", result |-> OpResult(op, o)]

\* -------------------------------------------------------------------- state
VARIABLES
    base_url, backoff, backoff_max_time, bulk_file_format,  \* the configuration
    BULK_FILE_NAMES,                                        \* the file name table
    http_client,                                            \* the transport handle
    pc,             \* "idle", "retry" (inside http_client.get), "done"
    cur,            \* the invocation: operation and arguments
    sent,           \* the GET it issues
    gets,           \* GETs put on the wire by this invocation
    attempts_made,  \* Retry.attempts_made
    waited,         \* seconds slept between attempts
    last,           \* the outcome the operation ended on
    result,         \* what the caller gets
    environ,        \* os.environ's SWC_API_BASE_URL
    cfg_args,       \* the arguments SWCConfig was called with
    swc_config      \* what SWCConfig(...) gave: a config object or an error

config == <<base_url, backoff, backoff_max_time, bulk_file_format>>
fields == <<base_url, backoff, backoff_max_time, bulk_file_format,
            BULK_FILE_NAMES, http_client>>
call == <<pc, cur, sent, gets, attempts_made, waited, last, result>>
setup == <<environ, cfg_args, swc_config>>
vars == <<fields, call, setup>>

NoCall == [op |-> "none", args |-> <<>>]
NoRequest ==
    [via |-> "none", target |-> "", passed |-> NoParams, params |-> NoParams,
     follow_redirects |-> FALSE]

Idle ==
    /\ pc = "idle" /\ cur = NoCall /\ sent = NoRequest /\ gets = 0
    /\ attempts_made = 0 /\ waited = 0 /\ last = NoOutcome /\ result = NoResult

\* SWCClient.__init__
Init ==
    /\ \E cfg \in Configs :
        /\ base_url = cfg.swc_base_url
        /\ backoff = cfg.swc_backoff
        /\ backoff_max_time = cfg.swc_backoff_max_time
        /\ bulk_file_format = cfg.swc_bulk_file_format
        /\ BULK_FILE_NAMES = BulkFileNames(cfg.swc_bulk_file_format)
        /\ http_client = HttpClient(cfg.swc_base_url, cfg.swc_backoff,
                                    cfg.swc_backoff_max_time)
        /\ environ = EnvUnset
        /\ cfg_args = ExplicitArgs(cfg)
        /\ swc_config = SWCConfig(ExplicitArgs(cfg), EnvUnset)
        /\ swc_config.cfg = cfg
    /\ Idle

\* A client operation up to the answer to its first GET.
CallRebuildingClient(op, a, o) ==
    /\ pc = "idle"
    /\ LET req == Request(op, a, BULK_FILE_NAMES)
           adv == Advance(op, req, http_client, 0, o)
       IN  /\ cur' = [op |-> op, args |-> a]
           /\ sent' = req
           /\ gets' = 1
           /\ attempts_made' = 0
           /\ waited' = 0
           /\ pc' = adv.pc
           /\ result' = adv.result
           /\ last' = IF adv.pc = "done" THEN o ELSE NoOutcome
    /\ http_client' = HttpClient(base_url, FALSE, backoff_max_time)
    /\ UNCHANGED <<config, BULK_FILE_NAMES, setup>>
Call(op, a, o) ==
    /\ pc = "idle"
    /\ LET req == Request(op, a, BULK_FILE_NAMES)
           adv == Advance(op, req, http_client, 0, o)
       IN  /\ cur' = [op |-> op, args |-> a]
           /\ sent' = req
           /\ gets' = 1
           /\ attempts_made' = 0
           /\ waited' = 0
           /\ pc' = adv.pc
           /\ result' = adv.result
           /\ last' = IF adv.pc = "done" THEN o ELSE NoOutcome
    /\ UNCHANGED <<fields, setup>>

\* The retry transport's next attempt: retry.increment(), retry.sleep(),
\* then the request again.
RetryAttempt(o) ==
    /\ pc = "retry"
    /\ LET made == attempts_made + 1
           adv == Advance(cur.op, sent, http_client, made, o)
       IN  /\ attempts_made' = made
           /\ waited' = waited + BackoffSleep(http_client.retry, made)
           /\ gets' = gets + 1
           /\ pc' = adv.pc
           /\ result' = adv.result
           /\ last' = IF adv.pc = "done" THEN o ELSE NoOutcome
    /\ UNCHANGED <<fields, setup, cur, sent>>

\* The caller has the result; the client is ready for the next call.
Return ==
    /\ pc = "done"
    /\ pc' = "idle" /\ cur' = NoCall /\ sent' = NoRequest /\ gets' = 0
    /\ attempts_made' = 0 /\ waited' = 0 /\ last' = NoOutcome
    /\ result' = NoResult
    /\ UNCHANGED <<fields, setup>>

\* any operation with any arguments, its GET answered in any way
ClientCall ==
    /\ pc = "idle"
    /\ \E op \in Ops : \E a \in Args(op) : \E o \in Outcomes : Call(op, a, o)

\* the retried GET answered in any way
TransportRetry ==
    /\ pc = "retry"
    /\ \E o \in Outcomes : RetryAttempt(o)

Next == ClientCall \/ TransportRetry \/ Return

Spec == Init /\ [][Next]_vars

\* ------------------------------------------------ configuring, then building
\* The program before any client exists: the environment is what it is, and
\* nothing has been configured.
Unconfigured ==
    /\ pc = "unconfigured"
    /\ cfg_args = <<>> /\ swc_config = NoConfig
    /\ base_url = <<>> /\ backoff = <<>> /\ backoff_max_time = <<>>
    /\ bulk_file_format = <<>> /\ BULK_FILE_NAMES = <<>> /\ http_client = <<>>
    /\ cur = NoCall /\ sent = NoRequest /\ gets = 0
    /\ attempts_made = 0 /\ waited = 0 /\ last = NoOutcome /\ result = NoResult

ConfigInit == environ \in Environs /\ Unconfigured

\* config = SWCConfig(...)
Configure(args) ==
    /\ pc = "unconfigured"
    /\ cfg_args' = args
    /\ swc_config' = SWCConfig(args, environ)
    /\ pc' = IF SWCConfig(args, environ).kind = "config"
             THEN "configured" ELSE "rejected"
    /\ UNCHANGED <<fields, environ, cur, sent, gets, attempts_made, waited,
                   last, result>>

\* client = SWCClient(config)
Construct ==
    /\ pc = "configured"
    /\ LET cfg == swc_config.cfg
       IN  /\ base_url' = cfg.swc_base_url
           /\ backoff' = cfg.swc_backoff
           /\ backoff_max_time' = cfg.swc_backoff_max_time
           /\ bulk_file_format' = cfg.swc_bulk_file_format
           /\ BULK_FILE_NAMES' = BulkFileNames(cfg.swc_bulk_file_format)
           /\ http_client' = HttpClient(cfg.swc_base_url, cfg.swc_backoff,
                                        cfg.swc_backoff_max_time)
    /\ pc' = "idle"
    /\ UNCHANGED <<setup, cur, sent, gets, attempts_made, waited, last, result>>

NewConfig ==
    /\ pc = "unconfigured"
    /\ \E args \in ConfigArgs : Configure(args)

ConfigNext == NewConfig \/ Construct

ConfigSpec == ConfigInit /\ [][ConfigNext]_vars

\* ------------------------------------------------------------------ claims
ViaClient == pc # "idle" /\ sent.via = "http_client"
Done == pc = "done"
Failed(o) == o.kind = "raise" \/ (o.kind = "response" /\ ~Is2xx(o.status))

\* C1: the mapping handed to the GET holds exactly the keys of the mapping
\* passed to call_api whose value is not None, each with its original value
\* (a falsy value such as skip = 0 is kept), and never a None value.
C1_OnlyNoneFiltered ==
    (ViaClient /\ sent.passed.some) =>
        /\ sent.params.some
        /\ DOMAIN sent.params.map =
             {k \in DOMAIN sent.passed.map : sent.passed.map[k] # None}
        /\ \A k \in DOMAIN sent.params.map :
             /\ sent.params.map[k] = sent.passed.map[k]
             /\ sent.params.map[k] # None
\* a list call whose mapping had a None entry and skip = 0: skip went out
C1_Witness ==
    /\ Done /\ cur.op = "list_leagues"
    /\ sent.passed.map["min_last_changed_date"] = None
    /\ sent.passed.map["skip"] = PyInt(0)
    /\ "skip" \in DOMAIN sent.params.map
    /\ "min_last_changed_date" \notin DOMAIN sent.params.map

\* C2: with backoff disabled, a call whose first GET raises an HTTP status
\* error or a request error ends at once with that error: one GET, no retry.
C2_NoBackoffNoSecondGet ==
    (ViaClient /\ ~backoff) =>
        /\ Done
        /\ gets = 1
        /\ last.kind = "raise" => result = Raised(last.exc)
C2_Witness ==
    /\ ~backoff /\ Done /\ cur.op = "call_api" /\ gets = 1
    /\ last = Raises("HTTPStatusError") /\ result = Raised("HTTPStatusError")

\* C3: with backoff disabled, an operation whose GET is answered with a
\* non-2xx status does not return normally: it raises a transport error.
\* (Stated for JSON bodies, where nothing but the status can make it fail.)
C3_NonSuccessStatusRaises ==
    (/\ ViaClient /\ ~backoff /\ Done
     /\ last.kind = "response" /\ ~Is2xx(last.status)
     /\ last.body.json # "invalid") =>
        /\ result.kind = "raise"
        /\ result.exc \in {"HTTPStatusError", "RequestError"}

\* C4: with backoff enabled and a transport that raises on every attempt, the
\* call stops retrying once the configured maximum wait is exceeded, and then
\* raises the last error.
C4_StopsOnceMaxWaitExceeded ==
    (ViaClient /\ backoff /\ Done /\ last.kind = "raise") =>
        /\ waited > backoff_max_time
        /\ result = Raised(last.exc)

\* C5: with backoff enabled a non-2xx response is retried like a network
\* error: a call ends on its first GET only when that GET succeeded.
\* (Stated for JSON bodies, as C3.)
C5_StatusRetriedLikeNetworkError ==
    (/\ ViaClient /\ backoff /\ Done /\ gets = 1
     /\ last.kind = "response" => last.body.json # "invalid") =>
        ~Failed(last)

\* C6: call_api returns the response object the GET returned, whatever its
\* status and body (a body that is not JSON included), and fails only when
\* the GET raised.
C6_CallApiReturnsResponse ==
    (Done /\ cur.op = "call_api" /\ last.kind = "response") =>
        result = Returns(last)

\* C7: a validation error of a list or get operation is propagated at once
\* and never retried, with either backoff setting: once the payload of a
\* response has failed validation the call is over, and the next step issues
\* no GET.
C7_ValidationNeverRetried ==
    [][result.exc = "ValidationError" => (Done /\ gets' <= gets)]_vars
\* a validation error on the answer to a retried GET
C7_Witness ==
    /\ backoff /\ Done /\ gets > 1 /\ cur.op \in ListOps \cup GetOps
    /\ result = Raised("ValidationError")

\* C8: a bulk file operation returns the body of the file host's response
\* unchanged and does not raise, whatever the status code.
C8_BulkReturnsBody ==
    (Done /\ cur.op \in BulkOps /\ last.kind = "response") =>
        result = Returns(last.body)
C8_Witness ==
    /\ Done /\ cur.op = "get_bulk_player_file" /\ last.status = 500
    /\ result = Returns(last.body)

\* C9: with either backoff setting a bulk file operation issues exactly one
\* GET, redirects followed, to the bulk base URL followed by its entry of the
\* file name table, through httpx.get and never through self.http_client: it
\* is never retried.
C9_BulkOneGetNoRetry ==
    (pc # "idle" /\ cur.op \in BulkOps) =>
        /\ Done
        /\ gets = 1
        /\ sent.via = "httpx.get"
        /\ sent.follow_redirects
        /\ sent.target = BULK_FILE_BASE_URL \o BULK_FILE_NAMES[BulkKey(cur.op)]
\* a status the retry transport would retry, answered to a bulk download of
\* a client built with backoff
C9_Witness ==
    /\ backoff /\ Done /\ cur.op = "get_bulk_team_player_file" /\ gets = 1
    /\ last.kind = "response" /\ last.status = 503

AllEndIn(ext) == \A k \in BulkKeys : BULK_FILE_NAMES[k] = BulkBaseNames[k] \o ext
\* equality with "parquet" up to letter case, character by character
IsParquetIgnoringCase(fmt) ==
    /\ Len(fmt) = Len(FmtParquet)
    /\ \A i \in 1..Len(FmtParquet) : fmt[i] \in {FmtParquet[i], FmtParquetUpper[i]}

\* C10 as stated: only the format "parquet" exactly gives ".parquet"; every
\* other value, "CSV" and "Parquet" included, gives ".csv".
C10_OnlyExactParquet ==
    /\ bulk_file_format = FmtParquet => AllEndIn(".parquet")
    /\ bulk_file_format # FmtParquet => AllEndIn(".csv")
\* C10 as amended: a format equal to "parquet" up to letter case ("Parquet",
\* "PARQUET") gives ".parquet" for all five names; every other value gives
\* ".csv".
C10_ParquetUpToCase ==
    /\ IsParquetIgnoringCase(bulk_file_format) => AllEndIn(".parquet")
    /\ ~IsParquetIgnoringCase(bulk_file_format) => AllEndIn(".csv")
C10_Witness ==
    /\ bulk_file_format = FmtParquetCap
    /\ BULK_FILE_NAMES["players"] = "player_data.parquet"
    /\ Done /\ cur.op = "get_bulk_player_file"

\* C11: the five bulk file names carry ".parquet" if and only if the
\* configured format equals "parquet" compared case-insensitively, and ".csv"
\* otherwise; the choice is made once, at construction: no later step changes
\* the format or the table.
C11_ExtensionChosenOnce ==
    /\ [](/\ AllEndIn(".parquet") <=> IsParquetIgnoringCase(bulk_file_format)
          /\ AllEndIn(".csv") <=> ~IsParquetIgnoringCase(bulk_file_format))
    /\ [][/\ BULK_FILE_NAMES' = BULK_FILE_NAMES
          /\ bulk_file_format' = bulk_file_format]_vars
\* a download by a client built with "PARQUET", after construction
C11_Witness ==
    /\ bulk_file_format = FmtParquetUpper
    /\ Done /\ cur.op = "get_bulk_team_file"
    /\ sent.target = BULK_FILE_BASE_URL \o "team_data.parquet"

\* C12: the configuration's base URL is the explicit parameter whenever one
\* is supplied, even with the environment variable set, and the environment
\* variable's value otherwise; with neither, construction fails with a
\* configuration error saying "Base URL is required" and gives no config object.
C12_BaseUrlResolution ==
    pc # "unconfigured" =>
        /\ IsGiven(cfg_args.base_url) =>
              /\ swc_config.kind = "config"
              /\ swc_config.cfg.swc_base_url = ValueOf(cfg_args.base_url)
        /\ (~IsGiven(cfg_args.base_url) /\ environ.set) =>
              /\ swc_config.kind = "config"
              /\ swc_config.cfg.swc_base_url = environ.v
        /\ (~IsGiven(cfg_args.base_url) /\ ~environ.set) =>
              /\ swc_config.kind = "raise"
              /\ swc_config.exc = "ValueError"
              /\ swc_config.message = "Base URL is required"
              /\ swc_config.cfg = <<>>
              /\ pc = "rejected"
\* the parameter wins over a set environment variable
C12_Witness ==
    /\ pc = "configured"
    /\ cfg_args.base_url = Given("https://api.example.com")
    /\ environ = EnvSet("https://env.example.com")
    /\ swc_config.cfg.swc_base_url = "https://api.example.com"

\* C13: a configuration given only a base URL has backoff enabled, a maximum
\* wait of 30 and the format "csv"; every value that is supplied, the format's
\* letter case included, is stored unchanged.
C13_DefaultsAndStoredValues ==
    swc_config.kind = "config" =>
        /\ swc_config.cfg.swc_backoff =
              IF IsGiven(cfg_args.backoff) THEN ValueOf(cfg_args.backoff) ELSE TRUE
        /\ swc_config.cfg.swc_backoff_max_time =
              IF IsGiven(cfg_args.backoff_max_time)
              THEN ValueOf(cfg_args.backoff_max_time) ELSE 30
        /\ swc_config.cfg.swc_bulk_file_format =
              IF IsGiven(cfg_args.bulk_file_format)
              THEN ValueOf(cfg_args.bulk_file_format) ELSE <<"c", "s", "v">>
\* "CSV" is kept in upper case next to two defaults, and the client is built
\* from it
C13_Witness ==
    /\ pc = "idle"
    /\ cfg_args.bulk_file_format = Given(FmtCsvUpper)
    /\ ~IsGiven(cfg_args.backoff) /\ ~IsGiven(cfg_args.backoff_max_time)
    /\ swc_config.cfg.swc_bulk_file_format = <<"C", "S", "V">>
    /\ swc_config.cfg.swc_backoff = TRUE
    /\ swc_config.cfg.swc_backoff_max_time = 30
    /\ bulk_file_format = <<"C", "S", "V">>

\* C14: each of list_leagues, list_teams, list_players and list_performances
\* hands call_api its collection path and a mapping whose keys are exactly
\* skip, limit, min_last_changed_date and the operation's own filters; skip is
\* 0 and limit 100 when left out, a filter left out is None, and every
\* supplied value is passed on unchanged.
C14_CollectionPath(op) ==
    CASE op = "list_leagues" -> "/v0/leagues/"
      [] op = "list_teams" -> "/v0/teams/"
      [] op = "list_players" -> "/v0/players/"
      [] op = "list_performances" -> "/v0/performances/"
C14_OwnFilters(op) ==
    CASE op = "list_leagues" -> {"league_name"}
      [] op = "list_teams" -> {"team_name", "league_id"}
      [] op = "list_players" -> {"first_name", "last_name"}
      [] op = "list_performances" -> {}
C14_WhenOmitted(k) ==
    CASE k = "skip" -> <<"int", 0>>
      [] k = "limit" -> <<"int", 100>>
      [] OTHER -> <<"none">>
C14_ListParams ==
    (pc # "idle" /\ cur.op \in ListOps) =>
        /\ sent.via = "http_client"
        /\ sent.target = C14_CollectionPath(cur.op)
        /\ sent.passed.some
        /\ DOMAIN sent.passed.map =
              {"skip", "limit", "min_last_changed_date"}
                  \cup C14_OwnFilters(cur.op)
        /\ DOMAIN cur.args = DOMAIN sent.passed.map
        /\ \A k \in DOMAIN sent.passed.map :
              sent.passed.map[k] =
                  IF cur.args[k] = <<"omitted">>
                  THEN C14_WhenOmitted(k) ELSE cur.args[k]
\* list_teams(league_id=1): the filter is passed, the rest take their defaults
C14_Witness ==
    /\ Done /\ cur.op = "list_teams"
    /\ cur.args["league_id"] = PyInt(1)
    /\ sent.passed.map["league_id"] = PyInt(1)
    /\ sent.passed.map["skip"] = PyInt(0)
    /\ sent.passed.map["limit"] = PyInt(100)
    /\ sent.passed.map["team_name"] = None

\* C15: get_league_by_id(id) calls "/v0/leagues/" followed by the id and
\* get_player_by_id(id) calls "/v0/players/" followed by the id, each without
\* query parameters, and what is returned is one record built from the
\* response body, carrying the id found in that body.
C15_Path(op, id) ==
    CASE op = "get_league_by_id" /\ id = 1 -> "/v0/leagues/1"
      [] op = "get_league_by_id" /\ id = 2 -> "/v0/leagues/2"
      [] op = "get_player_by_id" /\ id = 1 -> "/v0/players/1"
      [] op = "get_player_by_id" /\ id = 2 -> "/v0/players/2"
C15_IdOf(c) ==
    IF c.op = "get_league_by_id" THEN c.args.league_id
    ELSE c.args.player_id
C15_GetById ==
    (pc # "idle" /\ cur.op \in {"get_league_by_id", "get_player_by_id"}) =>
        /\ sent.via = "http_client"
        /\ sent.target = C15_Path(cur.op, C15_IdOf(cur))
        /\ sent.passed = NoParams /\ sent.params = NoParams
        /\ (Done /\ result.kind = "return") =>
              /\ last.body.json = "object"
              /\ result.value.type =
                    IF cur.op = "get_league_by_id" THEN "League" ELSE "Player"
              /\ result.value.id = last.body.items[1].id
        /\ (Done /\ last.kind = "response" /\ last.body.json = "object"
                 /\ last.body.items[1].ok) => result.kind = "return"
\* get_player_by_id(1) answered with the record of player 2
C15_Witness ==
    /\ Done /\ cur.op = "get_player_by_id" /\ cur.args.player_id = 1
    /\ sent.target = "/v0/players/1"
    /\ result.kind = "return" /\ result.value.id = 2

\* C16: with backoff on or off, when http_client.get raises HTTPStatusError or
\* RequestError inside call_api, the operation ends by raising that same
\* error and never returns a value.
C16_ErrorsPropagate ==
    (Done /\ sent.via = "http_client" /\ last.kind = "raise") =>
        /\ last.exc \in {"HTTPStatusError", "RequestError"}
        /\ result.kind = "raise"
        /\ result.exc = last.exc
\* a list operation whose every retry met a network error
C16_Witness ==
    /\ Done /\ backoff /\ cur.op \in ListOps
    /\ gets > 1
    /\ last = Raises("RequestError")
    /\ result = Raised("RequestError")

\* C17: whatever operations are invoked, in whatever order and however they
\* end, the base URL, the backoff flag, the backoff maximum time, the bulk
\* file format, the file name table and the transport handle stay what
\* construction made them.
C17_FieldsNeverChange ==
    [][/\ base_url' = base_url
       /\ backoff' = backoff
       /\ backoff_max_time' = backoff_max_time
       /\ bulk_file_format' = bulk_file_format
       /\ BULK_FILE_NAMES' = BULK_FILE_NAMES
       /\ http_client' = http_client]_vars
\* a retried operation has ended in an error and the client is still the one
\* __init__ built
C17_Witness ==
    /\ Done /\ backoff /\ gets > 1 /\ result.kind = "raise"
    /\ http_client = HttpClient(base_url, backoff, backoff_max_time)
    /\ BULK_FILE_NAMES = BulkFileNames(bulk_file_format)

C19_Type(op) ==
    CASE op = "list_leagues" -> "League"
      [] op = "list_teams" -> "Team"
      [] op = "list_players" -> "Player"
      [] op = "list_performances" -> "Performance"
C19_AllOrNothing ==
    (/\ Done /\ cur.op \in ListOps
     /\ last.kind = "response" /\ last.body.json = "array") =>
        LET items == last.body.items
        IN  IF \A i \in 1..Len(items) : items[i].ok
            THEN /\ result.kind = "return"
                 /\ Len(result.value) = Len(items)
                 /\ \A i \in 1..Len(items) :
                       result.value[i] =
                           [type |-> C19_Type(cur.op), id |-> items[i].id]
            ELSE /\ result.kind = "raise"
                 /\ result.exc = "ValidationError"
                 /\ result.value = <<>>
\* the second of two elements fails validation: nothing is returned
C19_Witness ==
    /\ Done /\ cur.op = "list_players"
    /\ last.kind = "response" /\ last.body.json = "array"
    /\ Len(last.body.items) = 2
    /\ last.body.items[1].ok /\ ~last.body.items[2].ok
    /\ result = Raised("ValidationError")

====
